---------------------------- MODULE Spec2Model ----------------------------
(***************************************************************************)
(* A model of the newton_forces_mcp tool servers: the diagram server       *)
(* (src/diagram/diagram.py), the vectors server (src/vectors/vectors.py),  *)
(* the math server (src/math/math_server.py) and the conversions server    *)
(* (src/conversions/conversions.py), the forces server                     *)
(* (src/forces/forces.py), and the chat loops that drive them              *)
(* (src/*/talk_to_*.py).                                                   *)
(*                                                                         *)
(* Every tool is a handler that runs to completion (the tools are          *)
(* coroutines without an await in their bodies), so a tool call is one     *)
(* action, taken when no other call is being answered, and followed by the *)
(* delivery of its outcome.  The state is what outlives a call (the        *)
(* process-wide unit registry and svgwrite's process-wide automatic id     *)
(* counter) and the call being answered with its outcome.                  *)
(*                                                                         *)
(* Numbers.  A Python float f is the integer 100*f (hundredths); results   *)
(* that are not a whole number of hundredths are rounded to the nearest.   *)
(* An angle in radians is kept as the direction it denotes, [c, s, h] with *)
(* cos = c/h and sin = s/h, so that cos and sin of the inputs drawn here   *)
(* (multiples of 90 degrees, axis-aligned and 3-4-5 vectors) are exact     *)
(* rationals.  An angle in degrees is a float like any other.              *)
(*                                                                         *)
(* Python values are tagged records; a str is a sequence of one-character  *)
(* strings; the outcome of a computation is Ok(value) or Raise(exception). *)
(***************************************************************************)
EXTENDS Integers, Sequences, FiniteSets, TLC

VARIABLES
    ureg,      \* the process-wide pint.UnitRegistry: unit name -> [dim, factor]
    nextid,    \* svgwrite's process-wide AutoID counter
    call,      \* the tool call being answered: [tool |-> ..., args...], or NoCall
    result,    \* its outcome: Ok(value) or Raise(exception)
    trace,     \* the evaluators the call entered, in order
    client,       \* the chat loop that runs: forces, vectors, math, conversions, diagram
    pc,           \* where the chat loop stands
    mcp_session,  \* self.mcp_session: None until connect_to_server opened it
    user_input,   \* the stripped line read from the user
    llm_response, \* what call_ollama returned: the lines of a text, or None
    tool_name,    \* the name taken from the TOOL: lines
    args,         \* the value taken from the ARGS: lines
    log           \* what handling the input did: model calls, tool calls, messages

serverVars == <<ureg, nextid, call, result, trace>>
clientVars == <<client, pc, mcp_session, user_input, llm_response, tool_name, args, log>>
vars == <<ureg, nextid, call, result, trace,
          client, pc, mcp_session, user_input, llm_response, tool_name, args, log>>

---------------------------------------------------------------------------
(* Python values and outcomes *)

Num(n) == [t |-> "num", n |-> n]

\* a float too small to show in the hundredths: r times the hundredth of
\* 6.1e-17, the float cos(pi/2); with n it is one of the floats of the model
Tiny(r) == [t |-> "num", n |-> 0, r |-> r]
Residue(v) == IF "r" \in DOMAIN v THEN v.r ELSE 0
FloatOf(n, r) == IF n # 0 \/ r = 0 THEN Num(n) ELSE Tiny(r)

\* whether the float v is less than 0
IsNegative(v) == v.n < 0 \/ (v.n = 0 /\ Residue(v) < 0)
Str(s) == [t |-> "str", s |-> s]
List(l) == [t |-> "list", l |-> l]
Dict(d) == [t |-> "dict", d |-> d]
None == [t |-> "none"]

Ok(v) == [ok |-> TRUE, val |-> v]
Raise(e) == [ok |-> FALSE, exc |-> e]

\* the rest of a computation, which an exception skips
Then(m, rest(_)) == IF m.ok THEN rest(m.val) ELSE m

\* try: m / except Exception: handler
Except(m, handler(_)) == IF m.ok THEN m ELSE handler(m.exc)

\* n whole units as a float of the model (hundredths)
Fx(n) == n * 100

Max(a, b) == IF a >= b THEN a ELSE b
Abs(a) == IF a >= 0 THEN a ELSE -a

---------------------------------------------------------------------------
(* str operations *)

Digits == <<"0", "1", "2", "3", "4", "5", "6", "7", "8", "9">>
IsDigit(c) == \E i \in 1..10 : Digits[i] = c
DigitVal(c) == (CHOOSE i \in 1..10 : Digits[i] = c) - 1
IsSpace(c) == c = " "

\* sub in s
Contains(s, sub) ==
    \E i \in 1..(Len(s) - Len(sub) + 1) : SubSeq(s, i, i + Len(sub) - 1) = sub

\* s.find(sub, i - 1) + 1: the index of the first occurrence of sub in s at or
\* after index i, 0 when there is none
RECURSIVE FindFrom(_, _, _)
FindFrom(s, sub, i) ==
    IF i + Len(sub) - 1 > Len(s) THEN 0
    ELSE IF SubSeq(s, i, i + Len(sub) - 1) = sub THEN i
    ELSE FindFrom(s, sub, i + 1)
Find(s, sub) == FindFrom(s, sub, 1)

\* s.split(sep), sep a non-empty str whose first occurrence in s is at i
RECURSIVE SplitAt(_, _, _)
SplitAt(s, sep, i) ==
    IF i = 0 THEN <<s>>
    ELSE <<SubSeq(s, 1, i - 1)>>
            \o SplitAt(SubSeq(s, i + Len(sep), Len(s)), sep,
                       Find(SubSeq(s, i + Len(sep), Len(s)), sep))
Split(s, sep) == SplitAt(s, sep, Find(s, sep))

\* s.lstrip()
RECURSIVE LStrip(_)
LStrip(s) == IF s # <<>> /\ IsSpace(Head(s)) THEN LStrip(Tail(s)) ELSE s

\* the leading run of non-space characters of s
RECURSIVE Word(_)
Word(s) == IF s = <<>> \/ IsSpace(Head(s)) THEN <<>> ELSE <<Head(s)>> \o Word(Tail(s))

\* s.split(): the maximal runs of non-space characters; r is s.lstrip()
RECURSIVE SplitWsFrom(_)
SplitWsFrom(r) ==
    IF r = <<>> THEN <<>>
    ELSE <<Word(r)>> \o SplitWsFrom(LStrip(SubSeq(r, Len(Word(r)) + 1, Len(r))))
SplitWs(s) == SplitWsFrom(LStrip(s))

\* s.strip()
RECURSIVE RStrip(_)
RStrip(s) == IF s # <<>> /\ IsSpace(s[Len(s)]) THEN RStrip(SubSeq(s, 1, Len(s) - 1)) ELSE s
Strip(s) == RStrip(LStrip(s))

RECURSIVE DigitsVal(_)
DigitsVal(s) == IF s = <<>> THEN 0 ELSE DigitsVal(SubSeq(s, 1, Len(s) - 1)) * 10 + DigitVal(s[Len(s)])

AllDigits(s) == \A i \in 1..Len(s) : IsDigit(s[i])

\* The decimal literals float() accepts: [sign] digits [. digits] with a digit
\* on at least one side of the point.  (Exponents, inf, nan and underscores
\* use characters outside the alphabet of the inputs drawn here.)
Unsigned(s) == IF s # <<>> /\ s[1] \in {"+", "-"} THEN Tail(s) ELSE s
\* the digits of u before (IntPart) and after (FracPart) its point at index p,
\* p = 0 when it has none
IntPart(u, p) == IF p > 0 THEN SubSeq(u, 1, p - 1) ELSE u
FracPart(u, p) == IF p > 0 THEN SubSeq(u, p + 1, Len(u)) ELSE <<>>
IsUnsignedLiteral(u, p) ==
    /\ AllDigits(IntPart(u, p))
    /\ AllDigits(FracPart(u, p))
    /\ Len(IntPart(u, p)) + Len(FracPart(u, p)) >= 1
IsFloatLiteral(s) == IsUnsignedLiteral(Unsigned(s), Find(Unsigned(s), <<".">>))

\* the value of a literal in hundredths (two decimal places are kept)
UnsignedVal(u, p) ==
    DigitsVal(IntPart(u, p)) * 100 + DigitVal((FracPart(u, p) \o <<"0", "0">>)[1]) * 10
        + DigitVal((FracPart(u, p) \o <<"0", "0">>)[2])
LiteralVal(s) ==
    IF s # <<>> /\ s[1] = "-" THEN -UnsignedVal(Unsigned(s), Find(Unsigned(s), <<".">>))
    ELSE UnsignedVal(Unsigned(s), Find(Unsigned(s), <<".">>))

\* float(s) for a str s without surrounding spaces
FloatOfText(s) == IF IsFloatLiteral(s) THEN Ok(LiteralVal(s)) ELSE Raise("ValueError")

---------------------------------------------------------------------------
(* float(), arithmetic and math functions on Python values *)

\* float(v)
Float(v) ==
    CASE v.t = "num" -> Ok(v.n)
      [] v.t = "str" -> FloatOfText(Strip(v.s))
      [] OTHER -> Raise("TypeError")

\* the number of right angles in deg degrees
Quarters(deg) == deg \div Fx(90)

\* the direction of the angle of deg degrees: cos = c/h, sin = s/h. The float
\* math.radians(90 * k) is k * (pi/2 - 6.1e-17), so the cos or sin that is 0
\* for the real angle is the float cr or sr times 6.1e-17 (|k| <= 10)
Direction(deg) ==
    CASE deg % Fx(360) = 0       -> [c |-> 1, s |-> 0, h |-> 1, cr |-> 0, sr |-> -Quarters(deg)]
      [] deg % Fx(360) = Fx(90)  -> [c |-> 0, s |-> 1, h |-> 1, cr |-> Quarters(deg), sr |-> 0]
      [] deg % Fx(360) = Fx(180) -> [c |-> -1, s |-> 0, h |-> 1, cr |-> 0, sr |-> Quarters(deg)]
      [] deg % Fx(360) = Fx(270) -> [c |-> 0, s |-> -1, h |-> 1, cr |-> -Quarters(deg), sr |-> 0]

\* math.radians(v)
Radians(v) == IF v.t = "num" THEN Ok(Direction(v.n)) ELSE Raise("TypeError")

\* v * f for a float f = c/h: only a number can be multiplied by a float
TimesRatio(v, c, h) == IF v.t = "num" THEN Ok((v.n * c) \div h) ELSE Raise("TypeError")

\* v * f for a float f = c/h that is r * 6.1e-17 when c = 0: a float of the model
TimesFloat(v, c, h, r) ==
    IF v.t = "num" THEN Ok(FloatOf((v.n * c) \div h, v.n * r)) ELSE Raise("TypeError")

\* the largest r in lo..hi with r * r <= q, by bisection
RECURSIVE SqrtFloor(_, _, _)
SqrtFloor(q, lo, hi) ==
    IF lo >= hi THEN lo
    ELSE LET mid == (lo + hi + 1) \div 2
         IN  IF mid * mid <= q THEN SqrtFloor(q, mid, hi) ELSE SqrtFloor(q, lo, mid - 1)

\* math.hypot(x, y), rounded to the nearest hundredth
RoundedRoot(q, r) == IF 4 * q < (2 * r + 1) * (2 * r + 1) THEN r ELSE r + 1
Hypot(x, y) == RoundedRoot(x * x + y * y, SqrtFloor(x * x + y * y, 0, Abs(x) + Abs(y)))

\* math.atan2(y, x) as a direction; atan2(0, 0) = 0
Atan2(y, x) ==
    IF x = 0 /\ y = 0 THEN [c |-> 1, s |-> 0, h |-> 1]
    ELSE [c |-> x, s |-> y, h |-> Hypot(x, y)]

\* tan((k - 0.5)/10 degrees) * 10^4 for k = 1..450: the tangents that separate
\* the tenths of a degree of the first octant
TanBound ==
  <<
    9, 26, 44, 61, 79, 96, 113, 131, 148, 166, 183, 201, 218, 236, 253,
    271, 288, 306, 323, 340, 358, 375, 393, 410, 428, 445, 463, 480, 498, 515,
    533, 550, 568, 585, 603, 620, 638, 655, 673, 690, 708, 726, 743, 761, 778,
    796, 813, 831, 849, 866, 884, 901, 919, 936, 954, 972, 989, 1007, 1025, 1042,
    1060, 1078, 1095, 1113, 1131, 1148, 1166, 1184, 1201, 1219, 1237, 1254, 1272, 1290, 1308,
    1325, 1343, 1361, 1379, 1397, 1414, 1432, 1450, 1468, 1486, 1503, 1521, 1539, 1557, 1575,
    1593, 1611, 1629, 1647, 1664, 1682, 1700, 1718, 1736, 1754, 1772, 1790, 1808, 1826, 1844,
    1862, 1880, 1899, 1917, 1935, 1953, 1971, 1989, 2007, 2025, 2044, 2062, 2080, 2098, 2116,
    2135, 2153, 2171, 2189, 2208, 2226, 2244, 2263, 2281, 2299, 2318, 2336, 2355, 2373, 2392,
    2410, 2428, 2447, 2465, 2484, 2503, 2521, 2540, 2558, 2577, 2595, 2614, 2633, 2651, 2670,
    2689, 2708, 2726, 2745, 2764, 2783, 2801, 2820, 2839, 2858, 2877, 2896, 2915, 2934, 2953,
    2972, 2991, 3010, 3029, 3048, 3067, 3086, 3105, 3124, 3143, 3163, 3182, 3201, 3220, 3240,
    3259, 3278, 3298, 3317, 3336, 3356, 3375, 3395, 3414, 3434, 3453, 3473, 3492, 3512, 3531,
    3551, 3571, 3590, 3610, 3630, 3650, 3669, 3689, 3709, 3729, 3749, 3769, 3789, 3809, 3829,
    3849, 3869, 3889, 3909, 3929, 3949, 3969, 3990, 4010, 4030, 4050, 4071, 4091, 4111, 4132,
    4152, 4173, 4193, 4214, 4234, 4255, 4276, 4296, 4317, 4338, 4359, 4379, 4400, 4421, 4442,
    4463, 4484, 4505, 4526, 4547, 4568, 4589, 4610, 4631, 4652, 4674, 4695, 4716, 4738, 4759,
    4780, 4802, 4823, 4845, 4867, 4888, 4910, 4931, 4953, 4975, 4997, 5019, 5040, 5062, 5084,
    5106, 5128, 5150, 5172, 5195, 5217, 5239, 5261, 5284, 5306, 5328, 5351, 5373, 5396, 5418,
    5441, 5464, 5486, 5509, 5532, 5555, 5577, 5600, 5623, 5646, 5669, 5692, 5715, 5739, 5762,
    5785, 5808, 5832, 5855, 5879, 5902, 5926, 5949, 5973, 5997, 6020, 6044, 6068, 6092, 6116,
    6140, 6164, 6188, 6212, 6237, 6261, 6285, 6310, 6334, 6358, 6383, 6408, 6432, 6457, 6482,
    6506, 6531, 6556, 6581, 6606, 6631, 6657, 6682, 6707, 6732, 6758, 6783, 6809, 6834, 6860,
    6886, 6911, 6937, 6963, 6989, 7015, 7041, 7067, 7094, 7120, 7146, 7173, 7199, 7226, 7252,
    7279, 7306, 7332, 7359, 7386, 7413, 7440, 7467, 7495, 7522, 7549, 7577, 7604, 7632, 7659,
    7687, 7715, 7743, 7771, 7799, 7827, 7855, 7883, 7912, 7940, 7969, 7997, 8026, 8055, 8083,
    8112, 8141, 8170, 8199, 8229, 8258, 8287, 8317, 8346, 8376, 8406, 8436, 8466, 8496, 8526,
    8556, 8586, 8617, 8647, 8678, 8708, 8739, 8770, 8801, 8832, 8863, 8894, 8925, 8957, 8988,
    9020, 9052, 9083, 9115, 9147, 9179, 9212, 9244, 9276, 9309, 9341, 9374, 9407, 9440, 9473,
    9506, 9540, 9573, 9606, 9640, 9674, 9708, 9742, 9776, 9810, 9844, 9879, 9913, 9948, 9983
  >>

\* the angle of the direction (x, y), 0 <= y <= x, x > 0, in tenths of a degree
OctantTenths(y, x) == Cardinality({k \in 1..450 : y * 10000 >= TanBound[k] * x})

\* the angle of the direction (x, y), x >= 0, y >= 0, not both 0, in tenths of a
\* degree
QuadrantTenths(y, x) == IF y <= x THEN OctantTenths(y, x) ELSE 900 - OctantTenths(x, y)

\* the angle in (-180, 180] that is a tenths of a degree away from the x axis, on
\* the side of the x axis and of the y axis that the signs of c and s tell
SignedTenths(a, c, s) ==
    IF s >= 0 THEN (IF c >= 0 THEN a ELSE 1800 - a)
    ELSE (IF c >= 0 THEN -a ELSE a - 1800)

\* math.degrees(angle) for an angle atan2 returned: in (-180, 180], computed to
\* the tenth of a degree
Degrees(angle) == 10 * SignedTenths(QuadrantTenths(Abs(angle.s), Abs(angle.c)), angle.c, angle.s)

---------------------------------------------------------------------------
(* src/diagram/diagram.py *)

\* lines 25-28: the vector of magnitude mag along angle degrees
PolarToVector(mag, angle) ==
    Ok(<<(mag * Direction(angle).c) \div Direction(angle).h,
         (mag * Direction(angle).s) \div Direction(angle).h>>)

\* words[0] of a list of words
FirstOf(words) == IF words = <<>> THEN Raise("IndexError") ELSE Ok(words[1])

\* pieces[1] of a list of pieces
SecondOf(pieces) == IF Len(pieces) < 2 THEN Raise("IndexError") ELSE Ok(pieces[2])

\* float(s.split(sep)[1].split()[0])
NumberAfter(s, sep) ==
    Then(SecondOf(Split(s, sep)), LAMBDA piece :
    Then(FirstOf(SplitWs(piece)), LAMBDA word :
    FloatOfText(word)))

\* lines 23-28: the body of the try block once "at" is in vec
ParseAtText(s) ==
    Then(NumberAfter(s, <<"=">>), LAMBDA mag :
    Then(NumberAfter(s, <<"a", "t">>), LAMBDA angle :
    PolarToVector(mag, angle)))

\* lines 14-17: the components of a magnitude/angle mapping
ParsePolar(magnitude, angle_deg) ==
    Then(Radians(angle_deg), LAMBDA angle_rad :
    Then(TimesRatio(magnitude, angle_rad.c, angle_rad.h), LAMBDA x :
    Then(TimesRatio(magnitude, angle_rad.s, angle_rad.h), LAMBDA y :
    Ok(<<x, y>>))))

\* line 19: the components of a list of two
ParseComponents(l) ==
    Then(Float(l[1]), LAMBDA x :
    Then(Float(l[2]), LAMBDA y :
    Ok(<<x, y>>)))

\* parse_vector(vec): Ok(<<x, y>>) or the exception it raises
parse_vector(vec) ==
    IF vec.t = "dict" /\ "magnitude" \in DOMAIN vec.d /\ "angle_deg" \in DOMAIN vec.d
    THEN ParsePolar(vec.d.magnitude, vec.d.angle_deg)
    ELSE IF vec.t = "list" /\ Len(vec.l) = 2
    THEN ParseComponents(vec.l)
    ELSE IF vec.t = "str" /\ Contains(vec.s, <<"a", "t">>)
    THEN Except(ParseAtText(vec.s), LAMBDA e : Ok(<<0, 0>>))
    ELSE Ok(<<0, 0>>)

\* (math.degrees(angle) + 360) % 360 as the format code .1f shows it: the sum
\* is reduced modulo 360 before it is rounded to the tenth, so that a negative
\* angle gives 360 + angle, which is shown as 360.0 when the angle is less than
\* 0.05 degrees below 0
AngleShown(angle) == IF angle.s < 0 THEN Fx(360) + Degrees(angle) ELSE Degrees(angle)

\* the angle measured from the y axis: atan2 with its arguments exchanged
CanonicalAngleFromY(x, y) == AngleShown(Atan2(x, y))

\* (math.degrees(math.atan2(y, x)) + 360) % 360
CanonicalAngle(x, y) == AngleShown(Atan2(y, x))

\* vector_label(vec) with the default name "" and unit "N": the formatted text
\* f"{name} ({mag:.2f} {unit} @ {angle:.1f} deg)" kept as its fields
vector_label(vec) ==
    [t |-> "fstr", name |-> <<>>, mag |-> Hypot(vec[1], vec[2]), unit |-> <<"N">>,
     angle |-> CanonicalAngle(vec[1], vec[2])]

center == <<Fx(200), Fx(200)>>

color_cycle == <<"red", "blue", "green", "purple", "orange", "brown", "darkcyan">>

\* str(n) for n >= 0
RECURSIVE IntToStr(_)
IntToStr(n) == IF n < 10 THEN <<Digits[n + 1]>> ELSE IntToStr(n \div 10) \o <<Digits[(n % 10) + 1]>>

\* a renderer that leaves the marker's id to svgwrite: AutoID hands out "id<n>"
\* and advances the counter of the process
MarkerAllocAuto(n) == [id |-> <<"i", "d">> \o IntToStr(n), next |-> n + 1]

\* line 47: the marker gets the explicit id "arrow", so that svgwrite's AutoID
\* counter n is neither read nor advanced
MarkerAlloc(n) == [id |-> <<"a", "r", "r", "o", "w">>, next |-> n]

\* lines 47-49: the arrowhead marker, added to defs
arrow_marker(n) ==
    [tag |-> "marker", id |-> MarkerAlloc(n).id, insert |-> <<10, 5>>, size |-> <<10, 10>>,
     orient |-> "auto",
     children |-> <<[tag |-> "polygon", points |-> <<<<0, 0>>, <<10, 5>>, <<0, 10>>>>,
                     fill |-> "black"]>>]

\* arrow_marker.get_funciri()
FuncIri(marker) == <<"u", "r", "l", "(", "#">> \o marker.id \o <<")">>

\* a renderer without the minimum length
ArrowLengthUnclamped(mag) == mag * 30

\* line 55: the on-canvas length of an arrow
ArrowLength(mag) == Max(Fx(30), mag * 30)

\* a renderer that keeps the mathematical orientation of the vertical axis
ArrowEndUnflipped(length, angle) ==
    <<center[1] + (length * angle.c) \div angle.h,
      center[2] + (length * angle.s) \div angle.h>>

\* lines 56-57: the end of an arrow of the given length along angle
ArrowEnd(length, angle) ==
    <<center[1] + (length * angle.c) \div angle.h,
      center[2] - (length * angle.s) \div angle.h>>

\* a renderer that cycles through the first six colours only
ArrowColorShortCycle(idx) == color_cycle[(idx % (Len(color_cycle) - 1)) + 1]

\* line 58
ArrowColor(idx) == color_cycle[(idx % Len(color_cycle)) + 1]

\* lines 61-69: the arrow
ArrowLine(end, color, marker) ==
    [tag |-> "line", start |-> center, end |-> end, stroke |-> color, stroke_width |-> 4,
     marker_end |-> FuncIri(marker)]

\* a label written at the end of its arrow
ArrowTextAtEnd(label, end, color) ==
    [tag |-> "text", text |-> label, insert |-> end, font_size |-> "12px", fill |-> color]

\* lines 73-75: the label of the arrow that ends at end
ArrowText(label, end, color) ==
    [tag |-> "text", text |-> label,
     insert |-> <<(center[1] + end[1]) \div 2 + Fx(10), (center[2] + end[2]) \div 2 - Fx(10)>>,
     font_size |-> "12px", fill |-> color]

\* line 72: force.get("label", vector_label(vec))
LabelOf(force, vec) == IF "label" \in DOMAIN force.d THEN force.d.label ELSE vector_label(vec)

\* lines 53-75: the arrow and the label of the force whose vector is vec
DrawVector(force, vec, color, marker) ==
    <<ArrowLine(ArrowEnd(ArrowLength(Hypot(vec[1], vec[2])), Atan2(vec[2], vec[1])), color, marker),
      ArrowText(LabelOf(force, vec),
                ArrowEnd(ArrowLength(Hypot(vec[1], vec[2])), Atan2(vec[2], vec[1])), color)>>

\* line 52: force["vector"]
VectorOf(force) ==
    IF force.t # "dict" THEN Raise("TypeError")
    ELSE IF "vector" \notin DOMAIN force.d THEN Raise("KeyError")
    ELSE Ok(force.d.vector)

\* lines 52-75: what one force adds to the drawing; idx is 0-based
DrawForce(force, idx, marker) ==
    Then(VectorOf(force), LAMBDA vector :
    Then(parse_vector(vector), LAMBDA vec :
    Ok(DrawVector(force, vec, ArrowColor(idx), marker))))

\* lines 51-75: the loop over forces[idx+1 ..], stopped by the first exception
RECURSIVE DrawForces(_, _, _)
DrawForces(forces, idx, marker) ==
    IF idx >= Len(forces) THEN Ok(<<>>)
    ELSE Then(DrawForce(forces[idx + 1], idx, marker), LAMBDA one :
         Then(DrawForces(forces, idx + 1, marker), LAMBDA rest :
         Ok(one \o rest)))

\* the number of arrows among the elements
RECURSIVE CountLines(_)
CountLines(elements) ==
    IF elements = <<>> THEN 0
    ELSE (IF Head(elements).tag = "line" THEN 1 ELSE 0) + CountLines(Tail(elements))

\* a drawing that defines the marker anew for each of its arrows
DrawingMarkerPerArrow(object_name, marker, arrows) ==
    [t |-> "svg", size |-> <<400, 400>>,
     defs |-> [k \in 1..CountLines(arrows) |-> marker],
     elements |->
        <<[tag |-> "circle", center |-> center, r |-> 20, fill |-> "lightgrey",
           stroke |-> "black", stroke_width |-> 2],
          [tag |-> "text", text |-> object_name,
           insert |-> <<center[1] - Fx(22), center[2] + Fx(45)>>,
           font_size |-> "16px", fill |-> "black"]>> \o arrows]

\* lines 39-49 and 77: the drawing with its arrows, as the size, the defs and the
\* elements in document order
Drawing(object_name, marker, arrows) ==
    [t |-> "svg", size |-> <<400, 400>>,
     defs |-> <<marker>>,
     elements |->
        <<[tag |-> "circle", center |-> center, r |-> 20, fill |-> "lightgrey",
           stroke |-> "black", stroke_width |-> 2],
          [tag |-> "text", text |-> object_name,
           insert |-> <<center[1] - Fx(22), center[2] + Fx(45)>>,
           font_size |-> "16px", fill |-> "black"]>> \o arrows]

\* draw_free_body(forces, object_name) with svgwrite's id counter at n: the markup
draw_free_body(forces, object_name, n) ==
    Then(DrawForces(forces, 0, arrow_marker(n)), LAMBDA arrows :
    Ok(Drawing(object_name, arrow_marker(n), arrows)))

\* free_body(forces, object_name)
free_body(forces, object_name, n) == draw_free_body(forces, object_name, n)

\* a loop that assigns where lines 89-90 accumulate: the last vector wins
RECURSIVE SumForcesLastWins(_, _, _, _)
SumForcesLastWins(forces, i, net_x, net_y) ==
    IF i > Len(forces) THEN Ok(<<net_x, net_y>>)
    ELSE Then(parse_vector(forces[i]), LAMBDA v :
         SumForcesLastWins(forces, i + 1, v[1], v[2]))

\* lines 86-90 of net_force: the loop over forces[i ..] with the running sums,
\* stopped by the first exception
RECURSIVE SumForces(_, _, _, _)
SumForces(forces, i, net_x, net_y) ==
    IF i > Len(forces) THEN Ok(<<net_x, net_y>>)
    ELSE Then(parse_vector(forces[i]), LAMBDA v :
         SumForces(forces, i + 1, net_x + v[1], net_y + v[2]))

\* lines 91-93: the text
\* f"Net force: {mag:.2f} N at {angle:.1f} deg ...\nComponents: ({net_x:.2f} N, {net_y:.2f} N)"
\* kept as its fields
NetForceText(net_x, net_y) ==
    [t |-> "text", head |-> "Net force:", mag |-> Hypot(net_x, net_y),
     angle |-> CanonicalAngle(net_x, net_y), x |-> net_x, y |-> net_y]

\* net_force(forces) of the diagram server
net_force(forces) ==
    Then(SumForces(forces, 1, 0, 0), LAMBDA net : Ok(NetForceText(net[1], net[2])))

\* f"F{idx+1}"
DefaultLabel(idx) == Str(<<"F">> \o IntToStr(idx + 1))

\* float(sp.sympify(f)) for a str f: a decimal literal gives its value, any other
\* text of the inputs drawn here fails in sympify or in float
SympifyFloat(s) == Except(FloatOfText(Strip(s)), LAMBDA e : Raise("SympifyError"))

\* lines 106-110: a str entry is a force along +x when it is a number, and is
\* dropped when it is not
ScalarForce(mag, idx) ==
    IF mag.ok
    THEN <<Dict([label |-> DefaultLabel(idx), vector |-> List(<<Num(mag.val), Num(0)>>)])>>
    ELSE <<>>

\* lines 99-110 of smart_diagram: what the entry f at 0-based position idx adds
\* to force_dicts
ForceDictsOf(f, idx) ==
    IF f.t = "dict" /\ "label" \in DOMAIN f.d /\ "vector" \in DOMAIN f.d
    THEN <<f>>
    ELSE IF f.t = "dict" /\ "magnitude" \in DOMAIN f.d /\ "angle_deg" \in DOMAIN f.d
    THEN <<Dict([label |-> DefaultLabel(idx), vector |-> f])>>
    ELSE IF f.t = "list" /\ Len(f.l) = 2
    THEN <<Dict([label |-> DefaultLabel(idx), vector |-> f])>>
    ELSE IF f.t = "str"
    THEN ScalarForce(SympifyFloat(f.s), idx)
    ELSE <<>>

\* lines 97-110: force_dicts built from forces[idx+1 ..]
RECURSIVE ForceDicts(_, _)
ForceDicts(forces, idx) ==
    IF idx >= Len(forces) THEN <<>>
    ELSE ForceDictsOf(forces[idx + 1], idx) \o ForceDicts(forces, idx + 1)

\* smart_diagram(forces, object_name)
smart_diagram(forces, object_name, n) == draw_free_body(ForceDicts(forces, 0), object_name, n)

---------------------------------------------------------------------------
(* src/vectors/vectors.py *)

\* from_magnitude_angle(magnitude, angle_deg): the list [x, y]
from_magnitude_angle(magnitude, angle_deg) ==
    Then(Radians(angle_deg), LAMBDA angle_rad :
    Then(TimesFloat(magnitude, angle_rad.c, angle_rad.h, angle_rad.cr), LAMBDA x :
    Then(TimesFloat(magnitude, angle_rad.s, angle_rad.h, angle_rad.sr), LAMBDA y :
    Ok(List(<<x, y>>)))))

\* line 17: math.degrees(math.atan2(y, x)) for the floats x and y, to the tenth
\* of a degree: in (-180, 180], and below 0 exactly when y is
DegreesOf(x, y) ==
    IF x.n = 0 /\ y.n = 0 THEN Degrees(Atan2(Residue(y), Residue(x)))
    ELSE IF y.n = 0 /\ Residue(y) < 0 THEN (IF x.n > 0 THEN 0 ELSE -Fx(180))
    ELSE Degrees(Atan2(y.n, x.n))

\* lines 18-19: if angle < 0: angle += 360, for the angle of a vector whose y
\* is negative or not. The float sum is 360.0 when the angle is less than
\* 2.8e-14 below 0, and shows as 360.00 when it is less than 0.005 below 0
NonNegativeAngle(angle, negative) == IF negative THEN angle + Fx(360) ELSE angle

\* to_magnitude_angle(x, y) for the floats x and y
to_magnitude_angle(x, y) ==
    [magnitude |-> Hypot(x.n, y.n),
     angle_deg |-> NonNegativeAngle(DegreesOf(x, y), IsNegative(y))]

\* lines 24-28: the three formatted lines, kept as their fields
DisplayText(x, y, mag_angle) ==
    [x |-> x, y |-> y, magnitude |-> mag_angle.magnitude, angle_deg |-> mag_angle.angle_deg]

\* vector_display(components); math.hypot and the format code .2f take numbers
\* only
vector_display(components) ==
    IF components[1].t # "num" \/ components[2].t # "num" THEN Raise("TypeError")
    ELSE Ok(DisplayText(components[1].n, components[2].n,
                        to_magnitude_angle(components[1], components[2])))

\* a + b and a - b on Python values
PyAdd(a, b) ==
    CASE a.t = "num" /\ b.t = "num"   -> Ok(FloatOf(a.n + b.n, Residue(a) + Residue(b)))
      [] a.t = "str" /\ b.t = "str"   -> Ok(Str(a.s \o b.s))
      [] a.t = "list" /\ b.t = "list" -> Ok(List(a.l \o b.l))
      [] OTHER -> Raise("TypeError")
PySub(a, b) ==
    IF a.t = "num" /\ b.t = "num" THEN Ok(FloatOf(a.n - b.n, Residue(a) - Residue(b)))
    ELSE Raise("TypeError")

\* lines 35-38 and 49-52: a vector given as magnitude/angle becomes [x, y]
ToComponents(v) ==
    IF v.t = "dict" /\ "magnitude" \in DOMAIN v.d /\ "angle_deg" \in DOMAIN v.d
    THEN from_magnitude_angle(v.d.magnitude, v.d.angle_deg)
    ELSE Ok(v)

VectorShapeError ==
    [t |-> "text", head |-> "Error:",
     cause |-> "Each vector must be components [x, y] (in N), or dict with 'magnitude' and 'angle_deg'."]

\* lines 39-42 and 53-56: the check of the two shapes, the componentwise op and
\* the text returned
CombineLists(v1, v2, op(_, _), head) ==
    IF ~(v1.t = "list" /\ v2.t = "list" /\ Len(v1.l) = 2 /\ Len(v2.l) = 2)
    THEN Ok(VectorShapeError)
    ELSE Then(op(v1.l[1], v2.l[1]), LAMBDA rx :
         Then(op(v1.l[2], v2.l[2]), LAMBDA ry :
         Then(vector_display(<<rx, ry>>), LAMBDA shown :
         Ok([t |-> "text", head |-> head, display |-> shown]))))

\* the body shared by add_vectors and subtract_vectors: op is PyAdd or PySub
CombineVectors(vector1, vector2, op(_, _), head) ==
    Then(ToComponents(vector1), LAMBDA v1 :
    Then(ToComponents(vector2), LAMBDA v2 :
    CombineLists(v1, v2, op, head)))

add_vectors(vector1, vector2) == CombineVectors(vector1, vector2, PyAdd, "Sum of vectors:")

subtract_vectors(vector1, vector2) == CombineVectors(vector1, vector2, PySub, "Difference of vectors:")

\* to_components(magnitude, angle_deg): f"Components: ({comp[0]:.2f} N, {comp[1]:.2f} N)"
to_components(magnitude, angle_deg) ==
    Then(from_magnitude_angle(magnitude, angle_deg), LAMBDA comp :
    Ok([t |-> "text", head |-> "Components:", x |-> comp.l[1].n, y |-> comp.l[2].n]))

\* lines 66-69: the two formatted lines, kept as their fields
PolarText(mag_angle) ==
    [t |-> "text", head |-> "Magnitude:", magnitude |-> mag_angle.magnitude,
     angle_deg |-> mag_angle.angle_deg]

\* to_polar(x, y)
to_polar(x, y) == Ok(PolarText(to_magnitude_angle(x, y)))

---------------------------------------------------------------------------
(* src/forces/forces.py *)

\* sum(forces[i ..]) added to start
RECURSIVE SumFrom(_, _, _)
SumFrom(forces, i, start) ==
    IF i > Len(forces) THEN start ELSE SumFrom(forces, i + 1, start + forces[i])

\* net_force(forces) of the forces server: a float
forces_net_force(forces) == Ok(Num(SumFrom(forces, 1, 0)))

\* GRAVITY = 9.8, in hundredths
GRAVITY == 980

\* a * b of two floats
PyMul(a, b) == Num((a.n * b.n) \div Fx(1))

\* tension with the mass looked at first
TensionMassFirst(weight, mass, gravity) ==
    IF mass # None THEN Ok(PyMul(mass, gravity))
    ELSE IF weight # None THEN Ok(weight)
    ELSE Ok(Num(0))

\* tension(weight, mass, gravity)
tension(weight, mass, gravity) ==
    IF weight # None THEN Ok(weight)
    ELSE IF mass # None THEN Ok(PyMul(mass, gravity))
    ELSE Ok(Num(0))

\* str.lower() on the letters of the inputs
UpperLetters ==
    <<"A", "B", "C", "D", "E", "F", "G", "H", "I", "J", "K", "L", "M",
      "N", "O", "P", "Q", "R", "S", "T", "U", "V", "W", "X", "Y", "Z">>
LowerLetters ==
    <<"a", "b", "c", "d", "e", "f", "g", "h", "i", "j", "k", "l", "m",
      "n", "o", "p", "q", "r", "s", "t", "u", "v", "w", "x", "y", "z">>
LowerChar(c) ==
    IF \E i \in 1..26 : UpperLetters[i] = c
    THEN LowerLetters[CHOOSE i \in 1..26 : UpperLetters[i] = c]
    ELSE c
Lower(s) == [i \in 1..Len(s) |-> LowerChar(s[i])]

\* the substrings force_breakdown looks for (lines 48 and 50)
Hanging == <<"h", "a", "n", "g", "i", "n", "g">>
Elevator == <<"e", "l", "e", "v", "a", "t", "o", "r">>
BlockOnTable == <<"b", "l", "o", "c", "k", " ", "o", "n", " ", "t", "a", "b", "l", "e">>

\* the three texts force_breakdown returns (lines 49, 51 and 53), the Greek
\* letter of the second spelled out
TensionAnswer ==
    [t |-> "text",
     head |-> "If at rest or moving at constant velocity, Tension = Weight = m * g"]
NormalAnswer ==
    [t |-> "text", head |-> "Normal force = Weight, Friction = mu * Normal force"]
GenericPrompt ==
    [t |-> "text",
     head |-> "Describe your situation with objects, surfaces, and directions for a breakdown."]

\* force_breakdown with the table looked up before the rope
ForceBreakdownTableFirst(situation) ==
    IF Contains(Lower(situation.s), BlockOnTable) THEN Ok(NormalAnswer)
    ELSE IF Contains(Lower(situation.s), Hanging) \/ Contains(Lower(situation.s), Elevator)
         THEN Ok(TensionAnswer)
    ELSE Ok(GenericPrompt)

\* force_breakdown(situation)
force_breakdown(situation) ==
    IF Contains(Lower(situation.s), Hanging) \/ Contains(Lower(situation.s), Elevator)
         THEN Ok(TensionAnswer)
    ELSE IF Contains(Lower(situation.s), BlockOnTable) THEN Ok(NormalAnswer)
    ELSE Ok(GenericPrompt)

---------------------------------------------------------------------------
(* pint, as the conversions and math servers use it *)

\* pint.UnitRegistry(): each unit's dimension (the exponents of mass, length
\* and time) and its size num/den in SI base units
Registry0 ==
    [kg |-> [dim |-> <<1, 0, 0>>, num |-> 1, den |-> 1],
     g  |-> [dim |-> <<1, 0, 0>>, num |-> 1, den |-> 1000],
     m  |-> [dim |-> <<0, 1, 0>>, num |-> 1, den |-> 1],
     cm |-> [dim |-> <<0, 1, 0>>, num |-> 1, den |-> 100],
     s  |-> [dim |-> <<0, 0, 1>>, num |-> 1, den |-> 1],
     N  |-> [dim |-> <<1, 1, -2>>, num |-> 1, den |-> 1]]

RECURSIVE Gcd(_, _)
Gcd(a, b) == IF b = 0 THEN a ELSE Gcd(b, a % b)

\* the rational num/den in lowest terms, den > 0
Ratio(num, den) ==
    LET d == Gcd(Abs(num), Abs(den))
    IN  IF d = 0 THEN <<0, 1>> ELSE <<num \div d, den \div d>>

\* a pint Quantity: the magnitude mag[1]/mag[2] (in hundredths) of a unit
Quantity(mag, unit) == [t |-> "qty", mag |-> mag, unit |-> unit]

\* reg(unit), the quantity 1 unit: a name the registry does not define raises
ParseUnit(reg, unit) ==
    IF unit \in DOMAIN reg THEN Ok(Quantity(<<Fx(1), 1>>, unit)) ELSE Raise("UndefinedUnitError")

\* a conversion that rescales without comparing the dimensions
ConvertToUnchecked(reg, qty, to_unit) ==
    IF to_unit \notin DOMAIN reg THEN Raise("UndefinedUnitError")
    ELSE Ok(Quantity(Ratio(qty.mag[1] * reg[qty.unit].num * reg[to_unit].den,
                           qty.mag[2] * reg[qty.unit].den * reg[to_unit].num),
                     to_unit))

\* qty.to(to_unit): defined only between units of the same dimension
ConvertTo(reg, qty, to_unit) ==
    IF to_unit \notin DOMAIN reg THEN Raise("UndefinedUnitError")
    ELSE IF reg[qty.unit].dim # reg[to_unit].dim THEN Raise("DimensionalityError")
    ELSE Ok(Quantity(Ratio(qty.mag[1] * reg[qty.unit].num * reg[to_unit].den,
                           qty.mag[2] * reg[qty.unit].den * reg[to_unit].num),
                     to_unit))

\* a Quantity in SI base units: its unit is the product of kg, m and s to the
\* exponents dim
BaseQuantity(mag, dim) == [t |-> "qty", mag |-> mag, unit |-> dim, base |-> TRUE]

\* a Quantity of the unit `unit / per`
QuotientQuantity(mag, unit, per) == [t |-> "qty", mag |-> mag, unit |-> unit, per |-> per]

\* the dimension of the unit of a Quantity, and the size of that unit in SI base
\* units, whether the unit is a name, a quotient of two names or a product of
\* base units
UnitDim(reg, qty) ==
    IF "base" \in DOMAIN qty THEN qty.unit
    ELSE IF "per" \in DOMAIN qty
         THEN [i \in 1..3 |-> reg[qty.unit].dim[i] - reg[qty.per].dim[i]]
    ELSE reg[qty.unit].dim
UnitSize(reg, qty) ==
    IF "base" \in DOMAIN qty THEN <<1, 1>>
    ELSE IF "per" \in DOMAIN qty
         THEN <<reg[qty.unit].num * reg[qty.per].den, reg[qty.unit].den * reg[qty.per].num>>
    ELSE <<reg[qty.unit].num, reg[qty.unit].den>>

\* a reduction that counts mass in grams while it writes kg
ToBaseUnitsInGrams(reg, qty) ==
    BaseQuantity(Ratio(qty.mag[1] * UnitSize(reg, qty)[1]
                           * (IF UnitDim(reg, qty)[1] > 0 THEN 1000 ELSE 1),
                       qty.mag[2] * UnitSize(reg, qty)[2]),
                 UnitDim(reg, qty))

\* qty.to_base_units(): the magnitude in SI base units, the unit as its dimension
ToBaseUnits(reg, qty) ==
    BaseQuantity(Ratio(qty.mag[1] * UnitSize(reg, qty)[1], qty.mag[2] * UnitSize(reg, qty)[2]),
                 UnitDim(reg, qty))

\* f"{base:~}" for a Quantity in base units, kept as the expression it reads
\* as: the magnitude and the symbols of the base units, or the magnitude alone
\* when no unit is left
ShortText(base) ==
    IF base.unit = <<0, 0, 0>> THEN [kind |-> "float", magnitude |-> base.mag]
    ELSE [kind |-> "base", magnitude |-> base.mag, unit |-> base.unit]

\* The text of an expression is kept as what the two parsers make of it:
\*   kind "quantity": a number and a unit name, as "2000 g"
\*   kind "number":   a bare number, as "5"
\*   kind "symbolic": symbolic mathematics without units, as "sqrt(16)"
\*   kind "garbage":  neither, as "5 +* "
\*   kind "quotient": a number and the quotient of two unit names, as "1 cm / m"
\*   kind "base":     a number and a product of base units, as "2 kg * m / s ** 2"
\*   kind "float":    a bare number as a Quantity without a unit prints, as "0.01"
\* and sym tells whether sympy parses it.
\* reg.parse_expression(expr): a Quantity, a plain number (not a Quantity) for a
\* bare number, or the error pint raises
ParseExpression(reg, expr) ==
    CASE expr.kind = "quantity" ->
            IF expr.unit \in DOMAIN reg THEN Ok(Quantity(<<expr.mag, 1>>, expr.unit))
            ELSE Raise("UndefinedUnitError")
      [] expr.kind = "quotient" ->
            IF expr.unit \in DOMAIN reg /\ expr.per \in DOMAIN reg
            THEN Ok(QuotientQuantity(<<expr.mag, 1>>, expr.unit, expr.per))
            ELSE Raise("UndefinedUnitError")
      [] expr.kind = "base" -> Ok(BaseQuantity(expr.magnitude, expr.unit))
      [] expr.kind = "float" -> Ok(Num(expr.magnitude))
      [] expr.kind = "number" -> Ok(Num(expr.mag))
      [] expr.kind = "symbolic" -> Raise("UndefinedUnitError")
      [] OTHER -> Raise("DefinitionSyntaxError")

\* a method of a Quantity, called on what parse_expression returned
AsQuantity(parsed) == IF parsed.t = "qty" THEN Ok(parsed) ELSE Raise("AttributeError")

\* sp.sympify(expr), simplified
Sympify(expr) == IF expr.sym THEN Ok([t |-> "sym", of |-> expr]) ELSE Raise("SympifyError")

ErrorText(cause) == [t |-> "text", head |-> "Error:", cause |-> cause]

---------------------------------------------------------------------------
(* src/conversions/conversions.py *)

\* value * quantity
Scaled(value, qty) == Quantity(Ratio(value * qty.mag[1], Fx(1) * qty.mag[2]), qty.unit)

\* lines 10-12: the body of the try block
ConvertUnitsText(reg, value, from_unit, to_unit) ==
    Then(ParseUnit(reg, from_unit), LAMBDA unit :
    Then(ConvertTo(reg, Scaled(value, unit), to_unit), LAMBDA converted :
    Ok([t |-> "text", head |-> "", value |-> value, from_unit |-> from_unit,
        magnitude |-> converted.mag, to_unit |-> to_unit])))

\* convert_units(value, from_unit, to_unit)
convert_units(reg, value, from_unit, to_unit) ==
    Except(ConvertUnitsText(reg, value, from_unit, to_unit), LAMBDA e : Ok(ErrorText(e)))

\* lines 18-20 and 39-41: the body of the try block of the two tools
SimplifyText(reg, expr) ==
    Then(ParseExpression(reg, expr), LAMBDA parsed :
    Then(AsQuantity(parsed), LAMBDA qty :
    Ok([t |-> "text", head |-> "", expr |-> expr, base |-> ShortText(ToBaseUnits(reg, qty))])))

\* simplify_unit(unit_expr)
simplify_unit(reg, unit_expr) ==
    Except(SimplifyText(reg, unit_expr), LAMBDA e : Ok(ErrorText(e)))

\* simplify_expression(expr)
simplify_expression(reg, expr) ==
    Except(SimplifyText(reg, expr), LAMBDA e : Ok(ErrorText(e)))

---------------------------------------------------------------------------
(* src/math/math_server.py *)

\* lines 11-13: the dimension-aware evaluation
EvaluateWithPint(reg, expr) ==
    Then(ParseExpression(reg, expr), LAMBDA parsed :
    Then(AsQuantity(parsed), LAMBDA qty :
    Ok([t |-> "text", head |-> "", expr |-> expr, result |-> qty,
        base |-> ToBaseUnits(reg, qty)])))

\* lines 17-18: the symbolic evaluation
EvaluateWithSympy(expr) ==
    Then(Sympify(expr), LAMBDA val :
    Ok([t |-> "text", head |-> "", expr |-> expr, simplified |-> val]))

\* an error text that reports the failure of the fallback in both places
EvaluationErrorLastOnly(pint_exc, sympy_exc) ==
    [t |-> "text", head |-> "Error:", cause |-> "Could not evaluate expression.",
     pint |-> sympy_exc, sympy |-> sympy_exc]

\* line 20: the text returned when both evaluations failed
EvaluationError(pint_exc, sympy_exc) ==
    [t |-> "text", head |-> "Error:", cause |-> "Could not evaluate expression.",
     pint |-> pint_exc, sympy |-> sympy_exc]

\* lines 14-20: what follows the failure pint_exc of the dimension-aware evaluation
SympyFallback(expr, pint_exc) ==
    [tried |-> <<"pint", "sympy">>,
     out |-> Except(EvaluateWithSympy(expr), LAMBDA sympy_exc :
                        Ok(EvaluationError(pint_exc, sympy_exc)))]

\* lines 9-20: the two evaluations in the order of the nested try blocks, given
\* the outcome byPint of the first
EvaluateInOrder(expr, byPint) ==
    IF byPint.ok THEN [tried |-> <<"pint">>, out |-> byPint]
    ELSE SympyFallback(expr, byPint.exc)

\* evaluate_expression(expr): the evaluators entered, in order, and what is returned
evaluate_expression(reg, expr) == EvaluateInOrder(expr, EvaluateWithPint(reg, expr))

\* lines 29-31: the body of the try block
ConvertAnswerText(reg, expr, to_unit) ==
    Then(ParseExpression(reg, expr), LAMBDA parsed :
    Then(AsQuantity(parsed), LAMBDA qty :
    Then(ConvertTo(reg, qty, to_unit), LAMBDA converted :
    Ok([t |-> "text", head |-> "", expr |-> expr, magnitude |-> converted.mag,
        to_unit |-> to_unit]))))

\* convert_answer(expr, to_unit)
convert_answer(reg, expr, to_unit) ==
    Except(ConvertAnswerText(reg, expr, to_unit), LAMBDA e : Ok(ErrorText(e)))

\* lines 38-40: the body of the try block
SimplifyUnitsText(reg, expr) ==
    Then(ParseExpression(reg, expr), LAMBDA parsed :
    Then(AsQuantity(parsed), LAMBDA qty :
    Ok([t |-> "text", head |-> "", expr |-> expr, base |-> ShortText(ToBaseUnits(reg, qty))])))

\* simplify_units(expr)
simplify_units(reg, expr) ==
    Except(SimplifyUnitsText(reg, expr), LAMBDA e : Ok(ErrorText(e)))

---------------------------------------------------------------------------
(* The arguments the tools are called with *)

MaxForces == 2
MaxArrows == 8

Vec(x, y) == List(<<Num(x), Num(y)>>)
Polar(m, a) == Dict([magnitude |-> m, angle_deg |-> a])

TextAt     == <<"F", "=", "3", " ", "a", "t", " ", "9", "0">>
TextAtUnit == <<"F", "=", "3", "N", " ", "a", "t", " ", "9", "0", " ", "d", "e", "g">>
TextNoEq   == <<"3", " ", "a", "t", " ", "9", "0">>
TextScalar == <<"1", "2">>
TextWord   == <<"a", "b", "c">>

\* vectors in the shapes the tools document
GoodVectors ==
    { Vec(Fx(3), Fx(4)), Vec(-Fx(4), Fx(3)), Vec(30, -40), Vec(0, 0),
      Polar(Num(Fx(5)), Num(Fx(90))), Str(TextAt) }

\* every other shape: wrong length, wrong types, missing keys, free text
OddVectors ==
    { List(<<Num(Fx(1)), Num(Fx(2)), Num(Fx(3))>>), List(<<Str(TextWord), Num(Fx(1))>>),
      Polar(Str(<<"5">>), Num(Fx(90))), Dict([magnitude |-> Num(Fx(5))]),
      Str(TextAtUnit), Str(TextNoEq), Str(TextScalar), Str(TextWord), None }

VectorInputs == GoodVectors \cup OddVectors

LabelA == Str(<<"W">>)
LabelB == Str(<<"T">>)

\* the entries of a forces list of free_body: mappings, as its signature demands
ForceInputs ==
    { Dict([label |-> LabelA, vector |-> v]) : v \in GoodVectors \cup {Str(TextWord)} }
    \cup { Dict([vector |-> Vec(0, -Fx(2))]),
           Dict([label |-> LabelB, vector |-> List(<<Str(TextWord), Num(Fx(1))>>)]),
           Dict([label |-> LabelB, vector |-> Str(TextScalar)]),
           Dict([label |-> LabelB]) }

\* the entries of the long lists: a labelled force and an unlabelled zero force
ArrowInputs == { Dict([label |-> LabelA, vector |-> Vec(Fx(3), Fx(4))]), Dict([vector |-> Vec(0, 0)]) }

\* the entries of a forces list of smart_diagram
SmartInputs ==
    VectorInputs
        \cup { Dict([label |-> LabelA, vector |-> Vec(0, Fx(1))]),
               Dict([vector |-> Vec(Fx(3), Fx(4))]),
               Dict([label |-> LabelB, magnitude |-> Num(Fx(5)), angle_deg |-> Num(Fx(90))]) }

\* the entries of a forces list of the diagram server's net_force: every shape,
\* a vector that points 0.05 degrees below the x axis, and a vector along +y
NetInputs == VectorInputs \cup { Vec(Fx(12), -1), Vec(0, Fx(5)) }

\* the magnitude/angle pairs of to_components, and of the first operand of
\* add_vectors when the second is the zero vector: a magnitude of 0 or more and
\* an angle below 0, in [0, 360) or from 360 on
MagnitudeInputs == { 0, Fx(5) }
AngleInputs == { -Fx(90), 0, Fx(90), Fx(180), Fx(360), Fx(450) }
PolarInputs == { Polar(Num(m), Num(a)) : m \in MagnitudeInputs, a \in AngleInputs }

\* the components of to_polar: floats on both sides of 0, and below 0 by one
\* hundredth and by less than any hundredth
FloatInputs == { Num(0), Num(Fx(3)), Num(-Fx(4)), Num(Fx(120)), Num(-1), Tiny(-1) }

\* the entries of a forces list of the forces server's net_force: floats
ScalarInputs == {0, Fx(3), -Fx(5), 250}

SeqsUpTo(S, n) == UNION { [1..k -> S] : k \in 0..n }

\* the default object_name (lines 38, 80 and 96) and another
Body == Str(<<"B", "o", "d", "y">>)
ObjectNames == { Body, Str(<<"C", "a", "r", "t">>) }

UnitInputs == {"kg", "g", "m", "cm", "N", "furlong"}
ValueInputs == {0, Fx(1), Fx(100), 250}

ExprInputs ==
    { [kind |-> "quantity", mag |-> Fx(2000), unit |-> "g", sym |-> FALSE],
      [kind |-> "quantity", mag |-> Fx(15), unit |-> "cm", sym |-> FALSE],
      [kind |-> "quantity", mag |-> Fx(40), unit |-> "N", sym |-> TRUE],
      [kind |-> "quantity", mag |-> Fx(5), unit |-> "furlong", sym |-> FALSE],
      [kind |-> "quantity", mag |-> Fx(5), unit |-> "furlong", sym |-> TRUE],
      [kind |-> "number", mag |-> Fx(5), sym |-> TRUE],
      [kind |-> "symbolic", sym |-> TRUE],
      [kind |-> "garbage", sym |-> FALSE] }

---------------------------------------------------------------------------
(* The servers: one action per tool *)

NoCall == [tool |-> "none"]

\* what handling an input did so far: nothing
NoLog == [asked |-> 0, called |-> <<>>, failed |-> "nothing", printed |-> <<>>]

\* the servers before any call
ServerInit ==
    /\ ureg = Registry0
    /\ nextid = 1
    /\ call = NoCall
    /\ result = Ok(None)
    /\ trace = <<>>

\* the chat loop c before chat_loop() is entered (__init__: no session)
ClientInit(c) ==
    /\ client = c
    /\ pc = "start"
    /\ mcp_session = None
    /\ user_input = <<>>
    /\ llm_response = None
    /\ tool_name = None
    /\ args = Dict(<<>>)
    /\ log = NoLog

Init == ServerInit /\ ClientInit("forces")

\* a convert_units that defines the source unit it does not know, as a unit of
\* length, in the shared registry
RegistryAfterDefining(reg, c) ==
    IF c.tool = "convert_units" /\ c.from_unit \notin DOMAIN reg
    THEN [u \in DOMAIN reg \cup {c.from_unit} |->
            IF u \in DOMAIN reg THEN reg[u] ELSE reg["m"]]
    ELSE reg

\* what a call leaves in the unit registry: no tool defines or redefines a unit
RegistryAfter(reg, c) == reg

Returns(c, out) ==
    /\ call = NoCall
    /\ call' = c
    /\ result' = out
    /\ ureg' = RegistryAfter(ureg, c)
    /\ UNCHANGED clientVars

\* the forces lists free_body is called with: short lists of every shape under
\* either name, long lists of two shapes under the default name
FreeBodyInputs ==
    (SeqsUpTo(ForceInputs, MaxForces) \X ObjectNames)
        \cup (SeqsUpTo(ArrowInputs, MaxArrows) \X {Body})

FreeBody ==
    \E in \in FreeBodyInputs :
        /\ Returns([tool |-> "free_body", forces |-> in[1], object_name |-> in[2]],
                   free_body(in[1], in[2], nextid))
        /\ nextid' = MarkerAlloc(nextid).next
        /\ trace' = <<>>

SmartDiagram ==
    \E forces \in SeqsUpTo(SmartInputs, MaxForces) :
        /\ Returns([tool |-> "smart_diagram", forces |-> forces, object_name |-> Body],
                   smart_diagram(forces, Body, nextid))
        /\ nextid' = MarkerAlloc(nextid).next
        /\ trace' = <<>>

NetForce ==
    \E forces \in SeqsUpTo(NetInputs, MaxForces) :
        /\ Returns([tool |-> "net_force", forces |-> forces], net_force(forces))
        /\ UNCHANGED nextid
        /\ trace' = <<>>

ForcesNetForce ==
    \E forces \in SeqsUpTo(ScalarInputs, MaxForces) :
        /\ Returns([tool |-> "forces.net_force", forces |-> forces], forces_net_force(forces))
        /\ UNCHANGED nextid
        /\ trace' = <<>>

\* an argument the caller leaves out, and the value its parameter then has
Omitted == [t |-> "omitted"]
Argument(given, default) == IF given = Omitted THEN default ELSE given

\* the weights, masses and gravities tension is called with
WeightInputs == { Omitted, None, Num(0), Num(Fx(20)) }
MassInputs == { Omitted, None, Num(0), Num(Fx(5)) }
GravityInputs == { Omitted, Num(162) }

Tension ==
    \E weight \in WeightInputs, mass \in MassInputs, gravity \in GravityInputs :
        /\ Returns([tool |-> "tension", weight |-> weight, mass |-> mass, gravity |-> gravity],
                   tension(Argument(weight, None), Argument(mass, None),
                           Argument(gravity, Num(GRAVITY))))
        /\ UNCHANGED nextid
        /\ trace' = <<>>

\* the situations force_breakdown is called with
SituationInputs ==
    { Str(<<>>),
      Str(<<"h", "a", "n", "g", "i", "n", "g", " ", "m", "a", "s", "s">>),
      Str(<<"H", "a", "n", "g", "i", "n", "g", " ", "M", "a", "s", "s">>),
      Str(<<"a", "n", " ", "E", "L", "E", "V", "A", "T", "O", "R">>),
      Str(<<"b", "l", "o", "c", "k", " ", "o", "n", " ", "t", "a", "b", "l", "e">>),
      Str(<<"B", "l", "o", "c", "k", " ", "O", "n", " ", "T", "a", "b", "l", "e">>),
      Str(<<"b", "l", "o", "c", "k", " ", "o", "n", " ", "a", " ", "t", "a", "b", "l", "e">>),
      Str(<<"h", "a", "n", "g", "i", "n", "g", " ", "b", "l", "o", "c", "k", " ", "o", "n", " ", "t", "a", "b", "l", "e">>),
      Str(<<"c", "a", "r", " ", "o", "n", " ", "r", "o", "a", "d">>) }

ForceBreakdown ==
    \E situation \in SituationInputs :
        /\ Returns([tool |-> "force_breakdown", situation |-> situation],
                   force_breakdown(situation))
        /\ UNCHANGED nextid
        /\ trace' = <<>>

AddVectors ==
    \E in \in (VectorInputs \X VectorInputs) \cup (PolarInputs \X {Vec(0, 0)}) :
      \E vector1 \in {in[1]}, vector2 \in {in[2]} :
        /\ Returns([tool |-> "add_vectors", vector1 |-> vector1, vector2 |-> vector2],
                   add_vectors(vector1, vector2))
        /\ UNCHANGED nextid
        /\ trace' = <<>>

SubtractVectors ==
    \E vector1 \in VectorInputs, vector2 \in VectorInputs :
        /\ Returns([tool |-> "subtract_vectors", vector1 |-> vector1, vector2 |-> vector2],
                   subtract_vectors(vector1, vector2))
        /\ UNCHANGED nextid
        /\ trace' = <<>>

ToComponentsTool ==
    \E magnitude \in MagnitudeInputs, angle_deg \in AngleInputs :
        /\ Returns([tool |-> "to_components", magnitude |-> Num(magnitude),
                    angle_deg |-> Num(angle_deg)],
                   to_components(Num(magnitude), Num(angle_deg)))
        /\ UNCHANGED nextid
        /\ trace' = <<>>

ToPolar ==
    \E x \in FloatInputs, y \in FloatInputs :
        /\ Returns([tool |-> "to_polar", x |-> x, y |-> y], to_polar(x, y))
        /\ UNCHANGED nextid
        /\ trace' = <<>>

ConvertUnits ==
    \E value \in ValueInputs, from_unit \in UnitInputs, to_unit \in UnitInputs :
        /\ Returns([tool |-> "convert_units", value |-> value, from_unit |-> from_unit,
                    to_unit |-> to_unit],
                   convert_units(ureg, value, from_unit, to_unit))
        /\ UNCHANGED nextid
        /\ trace' = <<>>

Evaluate ==
    \E expr \in ExprInputs :
        /\ Returns([tool |-> "evaluate", expr |-> expr], evaluate_expression(ureg, expr).out)
        /\ UNCHANGED nextid
        /\ trace' = evaluate_expression(ureg, expr).tried

ConvertAnswer ==
    \E expr \in ExprInputs, to_unit \in UnitInputs :
        /\ Returns([tool |-> "convert_answer", expr |-> expr, to_unit |-> to_unit],
                   convert_answer(ureg, expr, to_unit))
        /\ UNCHANGED nextid
        /\ trace' = <<>>

\* the expressions the three simplify tools are called with: the expressions
\* of evaluate, quotients of units, and what the tools print: quantities in
\* base units and a bare number
SimplifyInputs ==
    ExprInputs
        \cup { [kind |-> "quotient", mag |-> Fx(1), unit |-> "cm", per |-> "m"],
               [kind |-> "quotient", mag |-> Fx(3), unit |-> "N", per |-> "g"],
               [kind |-> "quotient", mag |-> Fx(1), unit |-> "m", per |-> "furlong"],
               [kind |-> "base", magnitude |-> <<Fx(2), 1>>, unit |-> <<1, 1, -2>>],
               [kind |-> "base", magnitude |-> <<1, 10>>, unit |-> <<1, 0, 0>>],
               [kind |-> "base", magnitude |-> <<Fx(3), 1>>, unit |-> <<0, 1, -1>>],
               [kind |-> "float", magnitude |-> <<1, 1>>] }

SimplifyUnit ==
    \E unit_expr \in SimplifyInputs :
        /\ Returns([tool |-> "simplify_unit", unit_expr |-> unit_expr],
                   simplify_unit(ureg, unit_expr))
        /\ UNCHANGED nextid
        /\ trace' = <<>>

SimplifyExpression ==
    \E expr \in SimplifyInputs :
        /\ Returns([tool |-> "simplify_expression", expr |-> expr],
                   simplify_expression(ureg, expr))
        /\ UNCHANGED nextid
        /\ trace' = <<>>

SimplifyUnits ==
    \E expr \in SimplifyInputs :
        /\ Returns([tool |-> "simplify_units", expr |-> expr], simplify_units(ureg, expr))
        /\ UNCHANGED nextid
        /\ trace' = <<>>

\* the outcome is delivered and the server waits for the next call
Respond ==
    /\ call # NoCall
    /\ call' = NoCall
    /\ result' = Ok(None)
    /\ trace' = <<>>
    /\ UNCHANGED <<ureg, nextid>>
    /\ UNCHANGED clientVars

Next ==
    \/ FreeBody
    \/ SmartDiagram
    \/ NetForce
    \/ ForcesNetForce
    \/ Tension
    \/ ForceBreakdown
    \/ AddVectors
    \/ SubtractVectors
    \/ ToComponentsTool
    \/ ToPolar
    \/ ConvertUnits
    \/ Evaluate
    \/ ConvertAnswer
    \/ SimplifyUnit
    \/ SimplifyExpression
    \/ SimplifyUnits
    \/ Respond

Spec == Init /\ [][Next]_vars

---------------------------------------------------------------------------
(* src/forces/talk_to_forces.py, src/vectors/talk_to_vectors.py,          *)
(* src/math/talk_to_math.py, src/conversions/talk_to_conversions.py and   *)
(* src/diagram/talk_to_diagram.py: the chat loops                         *)

Clients == {"forces", "vectors", "math", "conversions", "diagram"}

\* the forces loop has no try block around a request and skips an ARGS: line
\* it cannot decode; the other four give up the request on such a line
IsForces(c) == c = "forces"

\* vectors, math and conversions ask the model to word the tool result
AsksForAnswer(c) == c \in {"vectors", "math", "conversions"}

\* the markers of the reply format
ToolMarker == <<"T", "O", "O", "L", ":">>
ArgsMarker == <<"A", "R", "G", "S", ":">>

\* line.startswith(prefix)
StartsWith(line, prefix) ==
    Len(line) >= Len(prefix) /\ SubSeq(line, 1, Len(prefix)) = prefix

\* line.split(marker)[1].strip() for a line that starts with the marker
AfterMarker(line, marker) == Strip(Split(line, marker)[2])

\* the JSON texts of the replies drawn here
JsonOne == <<"{", "\"", "m", "\"", ":", "1", "}">>
JsonTwo == <<"{", "\"", "m", "\"", ":", "2", "}">>
JsonEmpty == <<"{", "}">>
JsonList == <<"[", "1", "]">>
JsonCut == <<"{", "\"", "m", "\"">>

\* json.loads(text): the value of each JSON text of the replies, and the
\* JSONDecodeError of every other text
JsonLoads(text) ==
    IF text = JsonOne THEN Ok(Dict([m |-> Num(Fx(1))]))
    ELSE IF text = JsonTwo THEN Ok(Dict([m |-> Num(Fx(2))]))
    ELSE IF text = JsonEmpty THEN Ok(Dict(<<>>))
    ELSE IF text = JsonList THEN Ok(List(<<Num(Fx(1))>>))
    ELSE Raise("JSONDecodeError")

\* bool(v)
Truthy(v) ==
    CASE v.t = "none" -> FALSE
      [] v.t = "str" -> v.s # <<>>
      [] v.t = "num" -> v.n # 0
      [] v.t = "list" -> v.l # <<>>
      [] v.t = "dict" -> DOMAIN v.d # {}

\* the for loop over llm_response.splitlines() from line i on: the last TOOL:
\* line gives tool_name, an ARGS: line that decodes gives args, and one that
\* does not is skipped (forces, lines 106-108) or ends the request with
\* "[Parse Error]" (the others)
RECURSIVE ExtractFrom(_, _, _, _, _)
ExtractFrom(lines, i, name, value, lenient) ==
    IF i > Len(lines) THEN [tool_name |-> name, args |-> value, error |-> FALSE]
    ELSE IF StartsWith(lines[i], ToolMarker)
         THEN ExtractFrom(lines, i + 1, Str(AfterMarker(lines[i], ToolMarker)), value, lenient)
    ELSE IF ~StartsWith(lines[i], ArgsMarker)
         THEN ExtractFrom(lines, i + 1, name, value, lenient)
    ELSE IF JsonLoads(AfterMarker(lines[i], ArgsMarker)).ok
         THEN ExtractFrom(lines, i + 1, name,
                          JsonLoads(AfterMarker(lines[i], ArgsMarker)).val, lenient)
    ELSE IF lenient THEN ExtractFrom(lines, i + 1, name, value, lenient)
    ELSE [tool_name |-> name, args |-> value, error |-> TRUE]

\* tool_name, args = None, {} and the loop
Extract(lines, c) == ExtractFrom(lines, 1, None, Dict(<<>>), IsForces(c))

\* the lines the user types
TypedInputs ==
    { <<"q", "u", "i", "t">>, <<"E", "x", "i", "t">>, <<" ", "q", " ">>,
      <<>>, <<" ", " ">>, <<"5", " ", "k", "g">> }

QuitWords == { <<"q", "u", "i", "t">>, <<"e", "x", "i", "t">>, <<"q">> }

\* the lines of the texts the model replies with
ToolW == <<"T", "O", "O", "L", ":", " ", "w">>
ToolF == <<"T", "O", "O", "L", ":", " ", "f">>
ToolNone == <<"T", "O", "O", "L", ":", " ">>
ArgsOne == <<"A", "R", "G", "S", ":", " ", "{", "\"", "m", "\"", ":", "1", "}">>
ArgsTwo == <<"A", "R", "G", "S", ":", " ", "{", "\"", "m", "\"", ":", "2", "}">>
ArgsEmpty == <<"A", "R", "G", "S", ":", " ", "{", "}">>
ArgsList == <<"A", "R", "G", "S", ":", " ", "[", "1", "]">>
ArgsCut == <<"A", "R", "G", "S", ":", " ", "{", "\"", "m", "\"">>
Chatter == <<"o", "k">>

Replies ==
    { <<ToolW, ArgsOne>>, <<ArgsOne, ToolW>>, <<ToolW>>, <<ArgsOne>>, <<>>, <<Chatter>>,
      <<ToolNone, ArgsOne>>, <<ToolW, ArgsEmpty>>, <<ToolW, ArgsList>>, <<ToolW, ArgsCut>>,
      <<ToolW, ArgsOne, ArgsCut>>, <<ToolW, ArgsCut, ArgsOne>>,
      <<ToolW, ToolF, ArgsOne, ArgsTwo>>, <<ToolW, ToolNone, ArgsOne>> }

\* the text the four async call_ollama return for a status other than 200
OllamaErrorText ==
    <<"[", "O", "l", "l", "a", "m", "a", " ", "E", "r", "r", "o", "r", "]",
      " ", "S", "t", "a", "t", "u", "s", " ", "c", "o", "d", "e", " ", "5",
      "0", "0">>

\* what requests.post does: a reply with status 200 and a text, a reply with
\* another status, or an exception when the model cannot be reached (written
\* as the status 0)
OllamaOutcomes ==
    { [status |-> 200, response |-> r] : r \in Replies }
        \cup { [status |-> 500, response |-> <<>>], [status |-> 0, response |-> <<>>] }

\* log with one more message printed, and the step that failed
Printed(l, message) == [l EXCEPT !.printed = Append(@, message)]
Failed(l, step) == [l EXCEPT !.failed = step]
Asked(l) == [l EXCEPT !.asked = @ + 1]

ChatInit == ServerInit /\ \E c \in Clients : ClientInit(c)

\* chat_loop before the while loop: connect_to_server opens the session and
\* initializes it, or raises where the server does not start (before the
\* session exists) or does not answer initialize() (after)
Connect ==
    /\ pc = "start"
    /\ \E outcome \in {"connected", "no server", "no handshake"} :
        /\ mcp_session' = IF outcome = "no server" THEN None
                          ELSE [t |-> "session", initialized |-> outcome = "connected"]
        /\ pc' = IF outcome = "connected" THEN "prompt" ELSE "aborted"
    /\ UNCHANGED <<client, user_input, llm_response, tool_name, args, log>>
    /\ UNCHANGED serverVars

\* input(...).strip(), the quit test and the empty test; the locals of the
\* previous round are dead
ReadInput ==
    /\ pc = "prompt"
    /\ \E typed \in TypedInputs :
        /\ user_input' = Strip(typed)
        /\ pc' = IF Lower(Strip(typed)) \in QuitWords THEN "ended"
                 ELSE IF Strip(typed) = <<>> THEN "prompt"
                 ELSE "ask"
    /\ llm_response' = None
    /\ tool_name' = None
    /\ args' = Dict(<<>>)
    /\ log' = NoLog
    /\ UNCHANGED <<client, mcp_session>>
    /\ UNCHANGED serverVars

\* call_ollama(user_input, SYSTEM_PROMPT) and what the loop does with an
\* exception.  forces: a status other than 200 prints "[Ollama error]" and
\* returns None, on which llm_response.strip() (line 96) raises, and nothing
\* catches that or the exception of requests.post.  The others return the
\* text "[Ollama Error] ..." and catch every exception in chat_loop.
CallOllama ==
    /\ pc = "ask"
    /\ \E outcome \in OllamaOutcomes :
        IF outcome.status = 200
        THEN /\ llm_response' = List(outcome.response)
             /\ pc' = "parse"
             /\ log' = Asked(log)
        ELSE IF IsForces(client)
        THEN /\ llm_response' = None
             /\ pc' = "crashed"
             /\ log' = Failed(Asked(IF outcome.status = 500
                                    THEN Printed(log, "[Ollama error]") ELSE log), "model")
        ELSE IF outcome.status = 500
        THEN /\ llm_response' = List(<<OllamaErrorText>>)
             /\ pc' = "parse"
             /\ log' = Failed(Asked(log), "model")
        ELSE /\ llm_response' = None
             /\ pc' = "prompt"
             /\ log' = Failed(Asked(Printed(log, "[Error]")), "model")
    /\ UNCHANGED <<client, mcp_session, user_input, tool_name, args>>
    /\ UNCHANGED serverVars

\* what is printed when the reply gives no tool call, and the step to blame
NotParsed(l, message) ==
    Printed(IF l.failed = "nothing" THEN Failed(l, "parse") ELSE l, message)

\* the extraction of tool_name and args and the test `not tool_name or not args`
ParseReplyAs(found) ==
    /\ tool_name' = found.tool_name
    /\ args' = found.args
    /\ pc' = IF ~found.error /\ Truthy(found.tool_name) /\ Truthy(found.args)
             THEN "call" ELSE "prompt"
    /\ log' = IF found.error THEN NotParsed(log, "[Parse Error]")
              ELSE IF Truthy(found.tool_name) /\ Truthy(found.args) THEN log
              ELSE NotParsed(log, "Could not parse")

ParseReply ==
    /\ pc = "parse"
    /\ ParseReplyAs(Extract(llm_response.l, client))
    /\ UNCHANGED <<client, mcp_session, user_input, llm_response>>
    /\ UNCHANGED serverVars

\* call_mcp_tool(tool_name, args): without a session nothing is called; with
\* one, call_tool is called and its exception, if any, is returned as text.
\* forces and diagram print the result and prompt again; the others go on to
\* ask the model for the answer.
CallMcpTool ==
    /\ pc = "call"
    /\ \E raised \in BOOLEAN :
        log' = IF mcp_session = None
               THEN Printed(Failed(log, "tool"), "[MCP Error]")
               ELSE IF raised
               THEN Printed(Failed([log EXCEPT !.called = Append(@, [tool_name |-> tool_name,
                                                                     args |-> args])],
                                   "tool"), "[MCP Exception]")
               ELSE Printed([log EXCEPT !.called = Append(@, [tool_name |-> tool_name,
                                                              args |-> args])], "result")
    /\ pc' = IF AsksForAnswer(client) THEN "answer" ELSE "prompt"
    /\ UNCHANGED <<client, mcp_session, user_input, llm_response, tool_name, args>>
    /\ UNCHANGED serverVars

\* call_ollama(final_prompt) of vectors, math and conversions, and the print
\* of what it returned or of the exception chat_loop caught
FinalAnswer ==
    /\ pc = "answer"
    /\ \E outcome \in OllamaOutcomes :
        log' = IF outcome.status = 200 THEN Printed(Asked(log), "Assistant")
               ELSE IF outcome.status = 500
               THEN Printed(Failed(Asked(log), "model"), "[Ollama Error]")
               ELSE Printed(Failed(Asked(log), "model"), "[Error]")
    /\ pc' = "prompt"
    /\ UNCHANGED <<client, mcp_session, user_input, llm_response, tool_name, args>>
    /\ UNCHANGED serverVars

ChatNext ==
    \/ Connect
    \/ ReadInput
    \/ CallOllama
    \/ ParseReply
    \/ CallMcpTool
    \/ FinalAnswer

ChatSpec == ChatInit /\ [][ChatNext]_vars

---------------------------------------------------------------------------
(* What the claims speak of *)

IsRender(c) == c.tool \in {"free_body", "smart_diagram"}

\* the forces call c hands to draw_free_body
Rendered(c) == IF c.tool = "free_body" THEN c.forces ELSE ForceDicts(c.forces, 0)

\* the arrow and the label of the i-th rendered force (1-based) in a markup
LineAt(markup, i) == markup.elements[2 * i + 1]
LabelAt(markup, i) == markup.elements[2 * i + 2]

\* the normalized vector of a rendered force
Normalized(force) == parse_vector(force.d.vector).val

HasVector(force) == force.t = "dict" /\ "vector" \in DOMAIN force.d

\* the outcome of call c in a process that has answered no call yet
Alone(c) ==
    CASE c.tool = "free_body" -> free_body(c.forces, c.object_name, 1)
      [] c.tool = "smart_diagram" -> smart_diagram(c.forces, c.object_name, 1)
      [] c.tool = "net_force" -> net_force(c.forces)
      [] c.tool = "forces.net_force" -> forces_net_force(c.forces)
      [] c.tool = "tension" -> tension(Argument(c.weight, None), Argument(c.mass, None),
                                         Argument(c.gravity, Num(GRAVITY)))
      [] c.tool = "force_breakdown" -> force_breakdown(c.situation)
      [] c.tool = "add_vectors" -> add_vectors(c.vector1, c.vector2)
      [] c.tool = "subtract_vectors" -> subtract_vectors(c.vector1, c.vector2)
      [] c.tool = "to_components" -> to_components(c.magnitude, c.angle_deg)
      [] c.tool = "to_polar" -> to_polar(c.x, c.y)
      [] c.tool = "convert_units" -> convert_units(Registry0, c.value, c.from_unit, c.to_unit)
      [] c.tool = "evaluate" -> evaluate_expression(Registry0, c.expr).out
      [] c.tool = "convert_answer" -> convert_answer(Registry0, c.expr, c.to_unit)
      [] c.tool = "simplify_unit" -> simplify_unit(Registry0, c.unit_expr)
      [] c.tool = "simplify_expression" -> simplify_expression(Registry0, c.expr)
      [] c.tool = "simplify_units" -> simplify_units(Registry0, c.expr)

\* the sum of f[i] over the indices i in S, in no particular order
RECURSIVE SumOver(_, _)
SumOver(f, S) ==
    IF S = {} THEN 0
    ELSE LET i == CHOOSE j \in S : TRUE IN f[i] + SumOver(f, S \ {i})

\* the list forces in the order p, a permutation of its indices
Reordered(forces, p) == [i \in 1..Len(forces) |-> forces[p[i]]]

---------------------------------------------------------------------------
(* The claims *)

\* C1: vector normalization never aborts a multi-force request: net_force,
\* smart_diagram and free_body (every entry of which carries a vector) complete
\* whatever the shape of the vectors in the list.
C1_MalformedNeverAborts ==
    /\ call.tool \in {"net_force", "smart_diagram"} => result.ok
    /\ (call.tool = "free_body" /\ \A i \in 1..Len(call.forces) : HasVector(call.forces[i]))
            => result.ok

\* C2: no tool raises across the tool boundary: every call returns a value, and
\* a failed computation returns a text that starts with "Error:".
C2_NoToolRaises == call.tool # "none" => result.ok

C5_TwoTierFallback ==
    call.tool = "evaluate" =>
        /\ trace # <<>> /\ trace[1] = "pint"
        /\ EvaluateWithPint(ureg, call.expr).ok =>
                trace = <<"pint">> /\ result = EvaluateWithPint(ureg, call.expr)
        /\ (\E i \in 1..Len(trace) : trace[i] = "sympy") =>
                ~EvaluateWithPint(ureg, call.expr).ok /\ trace = <<"pint", "sympy">>
        /\ (~EvaluateWithPint(ureg, call.expr).ok /\ EvaluateWithSympy(call.expr).ok) =>
                result = EvaluateWithSympy(call.expr)
        /\ (~EvaluateWithPint(ureg, call.expr).ok /\ ~EvaluateWithSympy(call.expr).ok) =>
                /\ result.ok
                /\ result.val.head = "Error:"
                /\ result.val.pint = EvaluateWithPint(ureg, call.expr).exc
                /\ result.val.sympy = EvaluateWithSympy(call.expr).exc

C5_Witness ==
    /\ call.tool = "evaluate"
    /\ trace = <<"pint", "sympy">>
    /\ result.ok
    /\ result.val.head = "Error:"
    /\ result.val.pint = "DefinitionSyntaxError"
    /\ result.val.sympy = "SympifyError"

\* C6: a conversion between units of different dimension never produces a
\* number: convert_units and convert_answer return a dimension-mismatch error
\* text, without a converted magnitude.
C6_MismatchIsError ==
    /\ (/\ call.tool = "convert_units"
        /\ call.from_unit \in DOMAIN ureg
        /\ call.to_unit \in DOMAIN ureg
        /\ ureg[call.from_unit].dim # ureg[call.to_unit].dim) =>
            /\ result = Ok(ErrorText("DimensionalityError"))
            /\ "magnitude" \notin DOMAIN result.val
    /\ (/\ call.tool = "convert_answer"
        /\ call.expr.kind = "quantity"
        /\ call.expr.unit \in DOMAIN ureg
        /\ call.to_unit \in DOMAIN ureg
        /\ ureg[call.expr.unit].dim # ureg[call.to_unit].dim) =>
            /\ result = Ok(ErrorText("DimensionalityError"))
            /\ "magnitude" \notin DOMAIN result.val

C6_Witness ==
    /\ call.tool = "convert_units"
    /\ call.from_unit = "g"
    /\ call.to_unit = "m"
    /\ result = Ok(ErrorText("DimensionalityError"))

\* C7: rendering is deterministic: whatever calls came before, the renderer
\* returns for an object name and a list of forces the markup it returns for
\* them in a process that has rendered nothing yet.
C7_RenderDeterministic ==
    IsRender(call) => result = draw_free_body(Rendered(call), call.object_name, 1)

C7_Witness ==
    /\ call.tool = "free_body"
    /\ Len(call.forces) = 2
    /\ result.ok
    /\ result.val.t = "svg"
    /\ Len(result.val.elements) = 6

IsDrawn(c, i) == c.tool = "free_body" \/ ForceDictsOf(c.forces[i + 1], i) # <<>>
PlaceOf(c, i) ==
    IF c.tool = "free_body" THEN i + 1 ELSE Len(ForceDicts(SubSeq(c.forces, 1, i + 1), 0))

ArrowSpan2(line) ==
    (line.end[1] - line.start[1]) * (line.end[1] - line.start[1])
        + (line.end[2] - line.start[2]) * (line.end[2] - line.start[2])

\* max(min_length, magnitude * scale) for the vector vec, min_length = scale = 30
ClampedLength(vec) == Max(Fx(30), Hypot(vec[1], vec[2]) * 30)

\* C9: no arrow has zero length: the on-canvas distance from the anchor to the
\* end of every arrow is max(30, magnitude * 30), at least 30, also for a zero
\* vector and for a vector degraded from malformed input.
C9_ArrowLengthClamped ==
    (IsRender(call) /\ result.ok) =>
        \A i \in 1..Len(Rendered(call)) :
            /\ LineAt(result.val, i).start = center
            /\ ArrowSpan2(LineAt(result.val, i))
                    = ClampedLength(Normalized(Rendered(call)[i]))
                        * ClampedLength(Normalized(Rendered(call)[i]))
            /\ ArrowSpan2(LineAt(result.val, i)) >= Fx(30) * Fx(30)

C9_Witness ==
    /\ IsRender(call)
    /\ result.ok
    /\ \E i \in 1..Len(Rendered(call)) :
        /\ Rendered(call)[i].d.vector = Str(TextWord)
        /\ Normalized(Rendered(call)[i]) = <<0, 0>>
        /\ ArrowSpan2(LineAt(result.val, i)) = Fx(30) * Fx(30)

\* C10: the renderer flips the vertical axis: an arrow of length L along the
\* angle of (x, y) ends at (cx + L*cos, cy - L*sin), so a force with positive y
\* ends above the anchor (smaller canvas y), one with negative y below it, and
\* the horizontal direction is kept.
C10_VerticalAxisFlipped ==
    (IsRender(call) /\ result.ok) =>
        \A i \in 1..Len(Rendered(call)) :
            LET vec == Normalized(Rendered(call)[i])
                mag == Hypot(vec[1], vec[2])
                L == ClampedLength(vec)
                end == LineAt(result.val, i).end
            IN  /\ vec = <<0, 0>> => end = <<center[1] + L, center[2]>>
                /\ vec # <<0, 0>> =>
                    /\ (end[1] - center[1]) * mag = L * vec[1]
                    /\ (center[2] - end[2]) * mag = L * vec[2]
                /\ vec[2] > 0 => end[2] < center[2]
                /\ vec[2] < 0 => end[2] > center[2]
                /\ vec[1] > 0 => end[1] > center[1]
                /\ vec[1] < 0 => end[1] < center[1]

C10_Witness ==
    /\ call.tool = "free_body"
    /\ result.ok
    /\ Len(call.forces) = 2
    /\ Normalized(call.forces[1]) = <<Fx(3), Fx(4)>>
    /\ LineAt(result.val, 1).end = <<center[1] + Fx(90), center[2] - Fx(120)>>
    /\ Normalized(call.forces[2]) = <<0, -Fx(2)>>
    /\ LineAt(result.val, 2).end = <<center[1], center[2] + Fx(60)>>

\* C11: the arrowhead marker is defined exactly once per diagram: the defs of
\* every returned markup hold exactly one marker, no element outside defs is a
\* marker, and each of the n >= 0 arrows refers to that marker by its id.
C11_MarkerDefinedOnce ==
    (IsRender(call) /\ result.ok) =>
        /\ Cardinality({k \in 1..Len(result.val.defs) : result.val.defs[k].tag = "marker"}) = 1
        /\ Len(result.val.defs) = 1
        /\ \A k \in 1..Len(result.val.elements) : result.val.elements[k].tag # "marker"
        /\ CountLines(result.val.elements) = Len(Rendered(call))
        /\ \A i \in 1..Len(Rendered(call)) :
            LineAt(result.val, i).marker_end
                = <<"u", "r", "l", "(", "#">> \o result.val.defs[1].id \o <<")">>

C11_Witness ==
    /\ call.tool = "free_body"
    /\ Len(call.forces) = 3
    /\ result.ok
    /\ Len(result.val.defs) = 1
    /\ result.val.defs[1].id = <<"a", "r", "r", "o", "w">>
    /\ \A i \in 1..3 : LineAt(result.val, i).marker_end = <<"u", "r", "l", "(", "#", "a", "r", "r", "o", "w", ")">>

\* the number of text elements among the elements
RECURSIVE CountTexts(_)
CountTexts(elements) ==
    IF elements = <<>> THEN 0
    ELSE (IF Head(elements).tag = "text" THEN 1 ELSE 0) + CountTexts(Tail(elements))

CarriesVector(f) ==
    \/ f.t = "list" /\ Len(f.l) = 2
    \/ f.t = "dict" /\ "magnitude" \in DOMAIN f.d /\ "angle_deg" \in DOMAIN f.d
    \/ f.t = "dict" /\ "vector" \in DOMAIN f.d
    \/ f.t = "str" /\ SympifyFloat(f.s).ok

HasLabel(f) == f.t = "dict" /\ "label" \in DOMAIN f.d

\* the number of arrows of a markup
ArrowCount(markup) == (Len(markup.elements) - 2) \div 2

\* C13: a force supplied without a label is labelled "F{n}": for every entry of
\* the forces list that carries a vector and no label, the diagram has a label
\* with the text F{n}, n the 1-based position of the entry in the list.
C13_DefaultLabel ==
    (IsRender(call) /\ result.ok) =>
        \A i \in 0..(Len(call.forces) - 1) :
            (CarriesVector(call.forces[i + 1]) /\ ~HasLabel(call.forces[i + 1])) =>
                \E k \in 1..ArrowCount(result.val) :
                    LabelAt(result.val, k).text = DefaultLabel(i)

\* the texts of the form "<number> at <number>" among the inputs, each with the
\* magnitude and the angle in degrees written in it
AtTexts ==
    { [text |-> TextAt, mag |-> Fx(3), angle |-> Fx(90)],
      [text |-> TextNoEq, mag |-> Fx(3), angle |-> Fx(90)],
      [text |-> TextAtUnit, mag |-> Fx(3), angle |-> Fx(90)] }

\* C14: free text of the form "<number> at <number>" is normalized like a
\* magnitude/angle pair: net_force of such a text alone returns what it returns
\* for the mapping of the magnitude and the angle written in the text, with or
\* without a unit suffix on the magnitude.
C14_AtTextIsPolar ==
    call.tool = "net_force" =>
        \A a \in AtTexts :
            call.forces = <<Str(a.text)>> =>
                /\ parse_vector(Str(a.text)) = parse_vector(Polar(Num(a.mag), Num(a.angle)))
                /\ result = net_force(<<Polar(Num(a.mag), Num(a.angle))>>)

\* C15: text that parses as a bare scalar s is normalized to the vector [s, 0]
\* wherever vector input is normalized: a string entry such as "12" contributes
\* (12, 0) to net_force and to free_body as it does to smart_diagram.
C15_ScalarTextIsVector ==
    /\ (call.tool = "net_force" /\ call.forces = <<Str(TextScalar)>>) =>
            /\ result.ok
            /\ result.val.x = SympifyFloat(TextScalar).val
            /\ result.val.y = 0
    /\ (call.tool = "smart_diagram" /\ call.forces = <<Str(TextScalar)>>) =>
            /\ result.ok
            /\ ArrowCount(result.val) = 1
            /\ Normalized(Rendered(call)[1]) = <<SympifyFloat(TextScalar).val, 0>>
    /\ (call.tool = "free_body" /\ result.ok) =>
            \A i \in 1..Len(call.forces) :
                (call.forces[i].d.vector.t = "str" /\ SympifyFloat(call.forces[i].d.vector.s).ok) =>
                    Normalized(call.forces[i]) = <<SympifyFloat(call.forces[i].d.vector.s).val, 0>>

\* an input the normalizer does not recognize and turns into the zero vector
Unrecognized(vec) ==
    /\ ~(vec.t = "dict" /\ "magnitude" \in DOMAIN vec.d /\ "angle_deg" \in DOMAIN vec.d)
    /\ ~(vec.t = "list" /\ Len(vec.l) = 2)
    /\ (vec.t = "str" /\ Contains(vec.s, <<"a", "t">>)) => ~ParseAtText(vec.s).ok

\* the forces of a free_body call with the vector of entry i replaced by vec
WithVector(forces, i, vec) ==
    [forces EXCEPT ![i] = Dict([forces[i].d EXCEPT !.vector = vec])]

\* C16: a degraded vector is reported, not silent: when the normalizer turns an
\* unrecognized entry into the zero vector, the result of the operation differs
\* from the result for a genuine zero force in the entry's place, so that the
\* caller can tell the two apart.
C16_DegradedIsReported ==
    /\ (call.tool = "net_force" /\ result.ok) =>
            \A i \in 1..Len(call.forces) :
                Unrecognized(call.forces[i]) =>
                    result # net_force([call.forces EXCEPT ![i] = Vec(0, 0)])
    /\ (call.tool = "free_body" /\ result.ok) =>
            \A i \in 1..Len(call.forces) :
                Unrecognized(call.forces[i].d.vector) =>
                    result # free_body(WithVector(call.forces, i, Vec(0, 0)), call.object_name, nextid)

\* C17: polar form is always canonical: to_polar returns the Euclidean norm, at
\* least 0, and an angle a with 0 <= a < 360, never 360 itself, also for (0, 0),
\* for points on the negative axes and for angles just below 0; the angle that
\* add_vectors, subtract_vectors, net_force and the generated labels of a
\* diagram report lies in the same range.
C17_PolarCanonical ==
    /\ call.tool = "to_polar" =>
        /\ result.val.magnitude = Hypot(call.x.n, call.y.n)
        /\ result.val.magnitude >= 0
        /\ 0 <= result.val.angle_deg /\ result.val.angle_deg < Fx(360)
    /\ (call.tool \in {"add_vectors", "subtract_vectors"} /\ result.ok /\ result.val.head # "Error:") =>
        /\ result.val.display.magnitude >= 0
        /\ 0 <= result.val.display.angle_deg /\ result.val.display.angle_deg < Fx(360)
    /\ (call.tool = "net_force" /\ result.ok) =>
        /\ result.val.mag >= 0
        /\ 0 <= result.val.angle /\ result.val.angle < Fx(360)
    /\ (IsRender(call) /\ result.ok) =>
        \A i \in 1..Len(Rendered(call)) :
            ~HasLabel(Rendered(call)[i]) =>
                /\ 0 <= LabelAt(result.val, i).text.angle
                /\ LabelAt(result.val, i).text.angle < Fx(360)

\* C18: polar round trip: for every magnitude m >= 0 and every angle a, the
\* components of {magnitude: m, angle_deg: a} converted back to polar form give
\* the magnitude m and the angle a mod 360. add_vectors makes the round trip
\* when its second operand is the zero vector.
C18_PolarRoundTrip ==
    (/\ call.tool = "add_vectors"
     /\ call.vector1 \in PolarInputs
     /\ call.vector2 = Vec(0, 0)) =>
        /\ result.ok
        /\ result.val.display.magnitude = call.vector1.d.magnitude.n
        /\ result.val.display.angle_deg = call.vector1.d.angle_deg.n % Fx(360)
        /\ to_magnitude_angle(from_magnitude_angle(call.vector1.d.magnitude,
                                                   call.vector1.d.angle_deg).val.l[1],
                              from_magnitude_angle(call.vector1.d.magnitude,
                                                   call.vector1.d.angle_deg).val.l[2])
                = [magnitude |-> call.vector1.d.magnitude.n,
                   angle_deg |-> call.vector1.d.angle_deg.n % Fx(360)]


\* what a caller passed for a parameter: neither left out nor None
Supplied(arg) == arg \notin { Omitted, None }

\* C19: tension returns the weight whenever a weight is supplied, a weight of 0
\* and a call that also supplies a mass included; with a mass and no weight it
\* returns mass * gravity, gravity being 9.8 unless the caller gives one; with
\* neither it returns 0.0.
C19_TensionPrecedence ==
    call.tool = "tension" =>
        /\ Supplied(call.weight) => result = Ok(call.weight)
        /\ (~Supplied(call.weight) /\ Supplied(call.mass) /\ call.gravity = Omitted) =>
                result = Ok(Num((call.mass.n * 98) \div 10))
        /\ (~Supplied(call.weight) /\ Supplied(call.mass) /\ call.gravity # Omitted) =>
                result = Ok(Num((call.mass.n * call.gravity.n) \div Fx(1)))
        /\ (~Supplied(call.weight) /\ ~Supplied(call.mass)) => result = Ok(Num(0))

\* a weight of 0 wins over a mass of 5 kg
C19_Witness ==
    /\ call.tool = "tension"
    /\ call.weight = Num(0)
    /\ call.mass = Num(Fx(5))
    /\ result = Ok(Num(0))


\* whether the situation of a call mentions the keyword, in any case
Mentions(c, keyword) == Contains(Lower(c.situation.s), keyword)

\* C20 (as the code has it): force_breakdown is an ordered keyword lookup on
\* the lower-cased text: a text containing "hanging" or "elevator" returns the
\* tension = weight relationship, also when it contains "block on table" too;
\* any other text containing "block on table" returns normal = weight and
\* friction = mu * normal; every other text returns the generic prompt.
C20_OrderedKeywordLookup ==
    call.tool = "force_breakdown" =>
        /\ (Mentions(call, Hanging) \/ Mentions(call, Elevator)) =>
                result = Ok(TensionAnswer)
        /\ (/\ Mentions(call, BlockOnTable)
            /\ ~Mentions(call, Hanging)
            /\ ~Mentions(call, Elevator)) => result = Ok(NormalAnswer)
        /\ (/\ ~Mentions(call, BlockOnTable)
            /\ ~Mentions(call, Hanging)
            /\ ~Mentions(call, Elevator)) => result = Ok(GenericPrompt)

\* a text that mentions both the rope and the table keyword
C20_Witness ==
    /\ call.tool = "force_breakdown"
    /\ Mentions(call, Hanging)
    /\ Mentions(call, BlockOnTable)
    /\ result = Ok(TensionAnswer)

\* C20 (as stated): a text describing a hanging mass returns the tension =
\* weight relationship, a text describing a block on a table returns normal =
\* weight and friction = mu * normal, and every text matching neither entry
\* returns the generic prompt.
C20_KeywordLookup ==
    call.tool = "force_breakdown" =>
        /\ Mentions(call, Hanging) => result = Ok(TensionAnswer)
        /\ Mentions(call, BlockOnTable) => result = Ok(NormalAnswer)
        /\ (~Mentions(call, Hanging) /\ ~Mentions(call, BlockOnTable)) =>
                result = Ok(GenericPrompt)


\* the call net_force([[3, 4], [0, 5]])
IsThreeFourZeroFive(c) ==
    /\ c.tool = "net_force"
    /\ c.forces = <<Vec(Fx(3), Fx(4)), Vec(0, Fx(5))>>

\* C21 (as the code has it): net_force([[3,4],[0,5]]) yields components
\* (3.00, 9.00), magnitude 9.49 N and direction 71.6 degrees.
C21_WorkedExample ==
    IsThreeFourZeroFive(call) =>
        /\ result.ok
        /\ result.val.x = Fx(3)
        /\ result.val.y = Fx(9)
        /\ result.val.mag = 949
        /\ result.val.angle = 7160

C21_Witness ==
    /\ IsThreeFourZeroFive(call)
    /\ result.ok
    /\ result.val.head = "Net force:"
    /\ result.val.y = Fx(9)

\* C21 (as stated): net_force([[3,4],[0,5]]) yields components (3, 9),
\* magnitude 9.486 N and direction 57.99 degrees, each to the digits the
\* answer shows (hundredths of a newton, tenths of a degree).
C21_WorkedExampleAsStated ==
    IsThreeFourZeroFive(call) =>
        /\ result.ok
        /\ result.val.x = Fx(3)
        /\ result.val.y = Fx(9)
        /\ Abs(10 * result.val.mag - 9486) <= 5
        /\ Abs(result.val.angle - 5799) <= 5


IsSimplify(c) == c.tool \in {"simplify_unit", "simplify_expression", "simplify_units"}

\* the expression a simplify call was given, and the same call on another one
ExprOf(c) == IF c.tool = "simplify_unit" THEN c.unit_expr ELSE c.expr
SimplifyAgain(c, expr) ==
    IF c.tool = "simplify_unit" THEN Alone([c EXCEPT !.unit_expr = expr])
    ELSE Alone([c EXCEPT !.expr = expr])

\* the quantity a simplify call parsed and reduced
ParsedOf(c) == ParseExpression(Registry0, ExprOf(c)).val

RECURSIVE LastLine(_, _, _)
LastLine(lines, marker, i) ==
    IF i = 0 THEN 0
    ELSE IF StartsWith(lines[i], marker) THEN i
    ELSE LastLine(lines, marker, i - 1)

\* C23: a failed request never ends a chat loop: whichever step of handling
\* an input failed, the failure is reported and the loop prompts again; the
\* loop ends only when the user enters quit, exit or q.
C23_FailureNeverEndsLoop ==
    /\ pc \in {"ended", "crashed"} =>
            /\ pc = "ended"
            /\ Lower(user_input) \in QuitWords
    /\ log.failed # "nothing" =>
            /\ pc \in {"prompt", "parse", "answer"}
            /\ pc = "prompt" => log.printed # <<>>

\* C24: a tool is called only on a fully parsed request over an open session:
\* at most one call_tool per user input, only with an initialized session, a
\* non-empty tool name and a non-empty argument map, which are those of the
\* last TOOL: line and of the last ARGS: line of the reply; an empty input
\* leads to neither a model call nor a tool call.
C24_CallOnlyWhenParsed ==
    /\ Len(log.called) <= 1
    /\ \A i \in 1..Len(log.called) :
            /\ mcp_session # None
            /\ mcp_session.initialized
            /\ log.called[i].tool_name.t = "str"
            /\ log.called[i].tool_name.s # <<>>
            /\ log.called[i].args.t = "dict"
            /\ DOMAIN log.called[i].args.d # {}
            /\ LastLine(llm_response.l, ToolMarker, Len(llm_response.l)) > 0
            /\ LastLine(llm_response.l, ArgsMarker, Len(llm_response.l)) > 0
            /\ log.called[i].tool_name.s
                    = AfterMarker(llm_response.l[LastLine(llm_response.l, ToolMarker,
                                                          Len(llm_response.l))], ToolMarker)
            /\ Ok(log.called[i].args)
                    = JsonLoads(AfterMarker(llm_response.l[LastLine(llm_response.l, ArgsMarker,
                                                                    Len(llm_response.l))],
                                            ArgsMarker))
    /\ user_input = <<>> => log.asked = 0 /\ log.called = <<>>

=============================================================================
